---- MODULE Spec2Model ----
(***************************************************************************)
(* Request admission and session security layer of sec-x-backend.          *)
(*                                                                         *)
(*  SpecAuth    : AuthGate (protect / optionalAuth), the logout route and  *)
(*                the token blacklist, with the environment that moves     *)
(*                time, expires records and fails the stores.              *)
(*  SpecSession : the SessionService operations called directly.           *)
(*  SpecCors    : the CORS admission chain of index.ts, the alert system   *)
(*                and the managed-origin registry.                         *)
(***************************************************************************)
EXTENDS Integers, Sequences, FiniteSets, TLC

\* ---------------------------------------------------------------- bounds
MaxTime == 3
JwtExpiresIn == 2
MaxIssued == 1

\* ------------------------------------------------------------- universes
Users == {"u1", "u2"}

Role(u) == IF u = "u1" THEN "admin" ELSE "reader"

NoToken == [id |-> "none", iat |-> 0, exp |-> 0, sig |-> "none"]

\* a token whose signature does not verify
BadToken == [id |-> "u1", iat |-> 0, exp |-> MaxTime + JwtExpiresIn, sig |-> "bad"]

NoUser == [id |-> "none", role |-> "none"]

VARIABLES
  now,          \* clock, in the unit of the exp claim
  issued,       \* tokens handed out by login
  users,        \* User collection: id -> [exists, isActive, lastLogin]
  blacklist,    \* TokenBlacklist collection
  req,          \* the request in flight through the auth middleware
  sess,         \* the last two SessionService calls recorded
  origins,      \* OriginManagementService.origins, in memory
  originsFile,  \* config/managed-origins.json
  nextId,       \* number of ids handed out by addOrigin, plus one
  alerts,       \* CORSAlertSystem.alerts, newest first
  violationCounts, \* CORSAlertSystem.violationCounts
  resp,         \* the answer to the last request through the CORS chain
  frontendUrl,  \* process.env.FRONTEND_URL, "" when unset
  hits,         \* the hit counters of the limiters' memory stores
  fed,          \* the generateAlert calls made directly: how many, the last
                \* one, and per key how many since the last reset
  load          \* the startup loadOrigins call: where it stands and what
                \* readFile gave it

authVars == <<now, issued, users, blacklist, req, sess>>

gateVars == <<frontendUrl, hits, fed, load>>

corsVars == <<origins, originsFile, nextId, alerts, violationCounts, resp, gateVars>>

vars == <<authVars, corsVars>>


\* ------------------------------------------------------------ jwt.utils
generateToken(u, time) ==
  [id |-> u, iat |-> time, exp |-> time + JwtExpiresIn, sig |-> "ok"]

\* TRUE iff jwt.verify returns the payload; FALSE iff it throws
verifyToken(t, time) == t.sig = "ok" /\ time < t.exp

\* --------------------------------------------------------- sessionService
\* variant of isTokenBlacklisted: a failed query read as revoked
isTokenBlacklistedFailClosed(store, up, t) ==
  IF up THEN \E r \in store : r.token = t ELSE TRUE

\* findOne({token}) rejects when the collection is unreachable: caught, false
isTokenBlacklisted(store, up, t) ==
  IF up THEN \E r \in store : r.token = t ELSE FALSE

\* variant of storeAfterFindOne: the lookup takes the record out
storeAfterFindOneAndDelete(store, up, t) ==
  IF up THEN {r \in store : r.token # t} ELSE store

\* the collection after TokenBlacklist.findOne({ token }): a read
storeAfterFindOne(store, up, t) == store

\* invalidateUserSessions: User.findByIdAndUpdate(userId, { lastLogin }), a
\* rejection is caught and logged
invalidateUserSessions(us, up, userId, time) ==
  IF up /\ userId \in DOMAIN us /\ us[userId].exists
  THEN [us EXCEPT ![userId].lastLogin = time]
  ELSE us

\* variant of createRecord: the document is built but never written
createRecordNotPersisted(store, up, t, u) == store

\* TokenBlacklist.create: rejects when unreachable or when the unique index
\* on token already holds t; the caller swallows either
createRecord(store, up, t, u) ==
  IF up /\ ~(\E r \in store : r.token = t)
  THEN store \cup {[token |-> t, userId |-> u, expiresAt |-> t.exp]}
  ELSE store

blacklistToken(store, up, t, u, time) ==
  IF verifyToken(t, time) THEN createRecord(store, up, t, u) ELSE store

\* variant of cleanupRemoves: $gt in place of $lt
cleanupRemovesFuture(r, time) == r.expiresAt > time

\* deleteMany({expiresAt: {$lt: now}})
cleanupRemoves(r, time) == r.expiresAt < time

cleanupExpired(store, up, time) ==
  IF up THEN {r \in store : ~cleanupRemoves(r, time)} ELSE store

\* TTL index on expiresAt with expireAfterSeconds: 0
ttlExpired(r, time) == r.expiresAt <= time

\* variant of verifyTokenWithBlacklist: decoded is returned without the lookup
verifyTokenOnly(store, up, t) == ""

\* second half of verifyTokenWithBlacklist, after verifyToken returned:
\* the message of the Error it throws, "" when it returns decoded
verifyTokenWithBlacklist(store, up, t) ==
  IF isTokenBlacklisted(store, up, t) THEN "Token has been invalidated" ELSE ""

\* variant of blacklistTokenThrows: no try/catch around the body
blacklistTokenRethrows(failed) == failed

\* blacklistToken wraps its whole body in try/catch and only logs
blacklistTokenThrows(failed) == FALSE

\* -------------------------------------------------------- auth.middleware
\* protect: cookie first, Authorization header as fallback
protectToken(hdr, ck) ==
  IF ck # NoToken THEN ck
  ELSE hdr

\* optionalAuth: Authorization header first, cookie only without a Bearer header
optionalAuthToken(hdr, ck) ==
  IF hdr # NoToken THEN hdr ELSE ck

\* the catch block of protect
protectCatch(msg) ==
  IF msg = "Token has been invalidated"
  THEN "Session has been terminated"
  ELSE "Not authorized, token failed"

\* variant of findById: the identity as it was when the token was signed
findByIdCached(us, id) ==
  [found |-> TRUE, isActive |-> TRUE, id |-> id, role |-> Role(id)]

\* User.findById
findById(us, id) ==
  IF id \in DOMAIN us /\ us[id].exists
  THEN [found |-> TRUE, isActive |-> us[id].isActive, id |-> id, role |-> Role(id)]
  ELSE [found |-> FALSE, isActive |-> FALSE, id |-> id, role |-> "none"]

IdleReq ==
  [kind |-> "none", pc |-> "idle", hdr |-> NoToken, ck |-> NoToken,
   token |-> NoToken, user |-> NoUser, reqToken |-> NoToken,
   nextCalls |-> 0, nextErr |-> "", status |-> 0, cookieCleared |-> FALSE,
   missed |-> FALSE, handler |-> "none"]

\* next(new UnauthorizedError(msg)): the error handler answers 401
nextWithError(r, msg) ==
  [r EXCEPT !.pc = "done", !.nextCalls = @ + 1, !.nextErr = msg, !.status = 401]

\* next() at the end of a middleware whose route has no further handler here
nextPlain(r) == [r EXCEPT !.pc = "done", !.nextCalls = @ + 1]

\* variant of optionalAuthCatch: the error is passed on as protect does
optionalAuthCatchHalts(r, msg) == nextWithError(r, msg)

\* the catch block of optionalAuth logs and falls through to next()
optionalAuthCatch(r, msg) == nextPlain(r)

reject(r, msg) ==
  IF r.kind = "optionalAuth" THEN optionalAuthCatch(r, msg) ELSE nextWithError(r, msg)

attach(r, doc) ==
  [r EXCEPT !.user = [id |-> doc.id, role |-> doc.role], !.reqToken = r.token]

\* what each middleware does with the user document
protectResolve(r, doc) ==
  IF ~doc.found THEN nextWithError(r, "User not found")
  ELSE IF ~doc.isActive THEN nextWithError(r, "User account is deactivated")
  ELSE nextPlain(attach(r, doc))

\* variant of authorize: any authenticated user passes
authorizeAnyRole(user, roles) ==
  IF user = NoUser THEN [status |-> 401, msg |-> "User not authenticated"]
  ELSE [status |-> 0, msg |-> ""]

\* authorize(...roles): the error handed to next, status 0 for a plain next()
authorize(user, roles) ==
  IF user = NoUser THEN [status |-> 401, msg |-> "User not authenticated"]
  ELSE IF user.role \notin roles
  THEN [status |-> 403, msg |-> "User role not authorized to access this route"]
  ELSE [status |-> 0, msg |-> ""]

\* next(error) of authorize, answered by the error handler with the error's status
authorizeRefuse(r, err) ==
  [r EXCEPT !.pc = "done", !.nextCalls = @ + 1, !.nextErr = err.msg, !.status = err.status]

\* a route handler answers
answer(r, handler, status) ==
  [r EXCEPT !.pc = "done", !.handler = handler, !.status = status]

optionalAuthResolve(r, doc) ==
  IF doc.found /\ doc.isActive THEN nextPlain(attach(r, doc)) ELSE nextPlain(r)

\* the end of the logout handler: clearCookie and the 200 answer, or next(error)
logoutFinish(r, raised) ==
  IF raised
  THEN [r EXCEPT !.pc = "done", !.nextCalls = @ + 1, !.nextErr = "error", !.status = 500]
  ELSE [r EXCEPT !.pc = "done", !.cookieCleared = TRUE, !.status = 200]

\* ------------------------------------------------------------ cors.config
allowedOrigins ==
  {IF frontendUrl # "" THEN frontendUrl ELSE "http://localhost:3000",
   "https://localhost:3000", "https://sec-x.netlify.app", "https://sec-x.vercel.app"}

\* variant of corsOriginValidator: every origin is reflected
corsOriginValidatorAllowAll(origin) == TRUE

\* TRUE iff callback(null, true); FALSE iff callback(corsError, false)
corsOriginValidator(origin) == origin = "" \/ origin \in allowedOrigins

\* cors(corsOptions): next(err), the preflight answer, or headers and next()
corsMiddleware(origin, method) ==
  IF ~corsOriginValidator(origin) THEN "CORSError"
  ELSE IF method = "OPTIONS" THEN "preflight"
  ELSE "next"

\* Access-Control-Allow-Origin reflects the request origin when there is one
allowOriginHeader(origin) == origin

\* the json body and status corsErrorHandler answers with
corsErrorHandler(errName) ==
  IF errName = "CORSError"
  THEN [status |-> 403, error |-> "CORS_VIOLATION"]
  ELSE [status |-> 500, error |-> errName]

\* ------------------------------------------------------ originValidation
\* new URL(u): the protocol and hostname of the urls that occur, ok = FALSE
\* when the constructor throws
parseUrl(u) ==
  CASE u = "http://localhost:3000" ->
         [ok |-> TRUE, protocol |-> "http:", hostname |-> "localhost"]
    [] u = "https://sec-x.netlify.app" ->
         [ok |-> TRUE, protocol |-> "https:", hostname |-> "sec-x.netlify.app"]
    [] u = "https://evil.test" ->
         [ok |-> TRUE, protocol |-> "https:", hostname |-> "evil.test"]
    [] u = "https://new.example.com" ->
         [ok |-> TRUE, protocol |-> "https:", hostname |-> "new.example.com"]
    [] u = "http://192.168.1.5" ->
         [ok |-> TRUE, protocol |-> "http:", hostname |-> "192.168.1.5"]
    [] OTHER -> [ok |-> FALSE, protocol |-> "", hostname |-> ""]

\* the three suspiciousPatterns, tested against URL.hostname (which carries
\* no port): /localhost:\d+$/, /(\d+\.){3}\d+/, /[^\w\-\.]/
patternWarnings(hostname) ==
  (IF hostname \in {} THEN 1 ELSE 0)
  + (IF hostname \in {"192.168.1.5"} THEN 1 ELSE 0)
  + (IF hostname \in {} THEN 1 ELSE 0)

refererWarnings(originUrl, referer) ==
  IF referer = "" THEN 0
  ELSE IF ~parseUrl(referer).ok THEN 1
  ELSE (IF originUrl.hostname # parseUrl(referer).hostname THEN 1 ELSE 0)
       + (IF originUrl.protocol # parseUrl(referer).protocol THEN 1 ELSE 0)

\* req.originValidation after validateOriginRequest: attached or not, and the
\* number of warnings collected
validateOriginRequest(origin, referer, isWarming, path) ==
  IF origin = "" \/ isWarming \/ path = "/api/health"
  THEN [attached |-> FALSE, warnings |-> 0]
  ELSE IF ~parseUrl(origin).ok
  THEN [attached |-> FALSE, warnings |-> 1]
  ELSE [attached |-> TRUE,
        warnings |-> patternWarnings(parseUrl(origin).hostname)
                     + refererWarnings(parseUrl(origin), referer)]

maxWarnings == 3

\* variant of blockSuspiciousOrigins: > in place of >=
blockSuspiciousOriginsStrict(validation) ==
  validation.attached /\ validation.warnings > maxWarnings

blockSuspiciousOrigins(validation) ==
  validation.attached /\ validation.warnings >= maxWarnings

\* the alert types one request raises on its way through the two middlewares
alertTypes(validation) ==
  (IF validation.attached /\ validation.warnings > 0 THEN <<"SUSPICIOUS">> ELSE <<>>)
  \o (IF blockSuspiciousOrigins(validation) THEN <<"BLOCKED">> ELSE <<>>)

\* ------------------------------------------------------------ alertSystem
maxAlerts == 1000

\* alertThresholds.LOW: declared, read by no code
ThresholdLow == 5

ThresholdMedium == 10

ThresholdHigh == 20

ThresholdCritical == 50

alertKey(origin, ip) == origin \o "-" \o ip

countOf(counts, key) == IF key \in DOMAIN counts THEN counts[key] ELSE 0

\* variants of severityOf: = in place of >=; no CRITICAL branch
severityOfExact(currentCount) ==
  IF currentCount = ThresholdCritical THEN "CRITICAL"
  ELSE IF currentCount = ThresholdHigh THEN "HIGH"
  ELSE IF currentCount = ThresholdMedium THEN "MEDIUM"
  ELSE "LOW"

severityOfNoCritical(currentCount) ==
  IF currentCount >= ThresholdHigh THEN "HIGH"
  ELSE IF currentCount >= ThresholdMedium THEN "MEDIUM"
  ELSE "LOW"

severityOf(currentCount) ==
  IF currentCount >= ThresholdCritical THEN "CRITICAL"
  ELSE IF currentCount >= ThresholdHigh THEN "HIGH"
  ELSE IF currentCount >= ThresholdMedium THEN "MEDIUM"
  ELSE "LOW"

\* variant of generateAlert: the buffer is never cut back
generateAlertUncut(sys, type, origin, ip) ==
  LET key == alertKey(origin, ip)
      currentCount == countOf(sys.counts, key)
      alert == [type |-> type, severity |-> severityOf(currentCount),
                origin |-> origin, ip |-> ip, violationCount |-> currentCount + 1]
  IN [alerts |-> <<alert>> \o sys.alerts,
      counts |-> [k \in DOMAIN sys.counts \cup {key} |->
                    IF k = key THEN currentCount + 1 ELSE sys.counts[k]]]

\* generateAlert on the pair [alerts, counts]
generateAlert(sys, type, origin, ip) ==
  LET key == alertKey(origin, ip)
      currentCount == countOf(sys.counts, key)
      alert == [type |-> type, severity |-> severityOf(currentCount),
                origin |-> origin, ip |-> ip, violationCount |-> currentCount + 1]
      grown == <<alert>> \o sys.alerts
  IN [alerts |-> IF Len(grown) > maxAlerts THEN SubSeq(grown, 1, maxAlerts) ELSE grown,
      counts |-> [k \in DOMAIN sys.counts \cup {key} |->
                    IF k = key THEN currentCount + 1 ELSE sys.counts[k]]]

RECURSIVE generateAlerts(_, _, _, _)
generateAlerts(sys, types, origin, ip) ==
  IF types = <<>> THEN sys
  ELSE generateAlerts(generateAlert(sys, Head(types), origin, ip), Tail(types), origin, ip)

\* ------------------------------------------------------------ rateLimiter
Clients == {"10.0.0.1"}

Tiers == {"options", "suspicious", "general"}

OptionsMax == 20

SuspiciousMax == 3

GeneralMax == 100

OptionsWindowSeconds == 300

SuspiciousWindowSeconds == 900

GeneralWindowSeconds == 900

maxOf(tier) ==
  CASE tier = "options" -> OptionsMax
    [] tier = "suspicious" -> SuspiciousMax
    [] OTHER -> GeneralMax

\* Retry-After: Math.ceil(windowMs / 1000)
retryAfterOf(tier) ==
  CASE tier = "options" -> OptionsWindowSeconds
    [] tier = "suspicious" -> SuspiciousWindowSeconds
    [] OTHER -> GeneralWindowSeconds

\* req.originValidation where index.ts calls the limiter: nothing has set it yet
validationAtLimiter == [attached |-> FALSE, warnings |-> 0]

\* smartCORSLimiter: the limiter the request is handed to
smartCORSLimiter(method, validation) ==
  IF method = "OPTIONS" THEN "options"
  ELSE IF validation.attached /\ validation.warnings > 0 THEN "suspicious"
  ELSE "general"

\* the limiter's decision once the store has counted the hit
overLimit(totalHits, tier) == totalHits > maxOf(tier)

\* the wrapper of index.ts calls next() without waiting for the limiter, whose
\* decision comes after the store's promise resolves: an answer the chain
\* gives within the same tick is out before the limiter can answer
answersInTick(stage, blocked, path) ==
  stage \in {"CORSError", "preflight"} \/ blocked \/ path = "/api/health"

\* getRecentAlerts(limit)
getRecentAlerts(as, limit) == SubSeq(as, 1, IF limit < Len(as) THEN limit ELSE Len(as))

\* a loadOrigins call that has finished
NoLoad == [pc |-> "done", ok |-> TRUE, data |-> <<>>]

NoFed == [calls |-> 0, last |-> [type |-> "none", origin |-> "", ip |-> ""], since |-> <<>>]

\* ------------------------------------------------- originManagement.service
getActiveOrigins(os) == {os[i].url : i \in {j \in DOMAIN os : os[j].isActive}}

\* getAllOrigins: a copy of the array
getAllOrigins(os) == os

usageCounts(os) == {os[i].usageCount : i \in DOMAIN os}

\* the entries with usageCount c down to 0, each group in array order
RECURSIVE byUsageFrom(_, _)
byUsageFrom(os, c) ==
  IF c < 0 THEN <<>>
  ELSE SelectSeq(os, LAMBDA o : o.usageCount = c) \o byUsageFrom(os, c - 1)

\* Array.prototype.sort((a, b) => b.usageCount - a.usageCount): stable, in place
sortByUsage(os) ==
  IF os = <<>> THEN <<>>
  ELSE byUsageFrom(os, CHOOSE c \in usageCounts(os) : \A d \in usageCounts(os) : d <= c)

\* getOriginStats: the counts it returns, and the array it leaves behind
getOriginStats(os) ==
  [total |-> Len(os),
   active |-> Cardinality({i \in DOMAIN os : os[i].isActive}),
   mostUsed |-> [i \in 1..(IF Len(os) < 5 THEN Len(os) ELSE 5) |->
                   [url |-> sortByUsage(os)[i].url,
                    usageCount |-> sortByUsage(os)[i].usageCount]],
   origins |-> sortByUsage(os)]

\* Object.assign(origin, updates)
assign(origin, updates) ==
  [f \in DOMAIN origin |-> IF f \in DOMAIN updates THEN updates[f] ELSE origin[f]]

\* saveOrigins: the write goes through or the error is logged and dropped
saveOrigins(file, os, written) == IF written THEN os ELSE file

NoResp ==
  [origin |-> "", method |-> "none", status |-> 0, error |-> "", acao |-> "",
   handlerRan |-> FALSE, raised |-> <<>>, registered |-> FALSE,
   warnings |-> 0, tier |-> "none", hit |-> 0, retryAfter |-> 0,
   validated |-> FALSE, collected |-> 0, warming |-> FALSE]

InitCors ==
  /\ origins = <<>>
  /\ originsFile = <<>>
  /\ nextId = 1
  /\ alerts = <<>>
  /\ violationCounts = <<>>
  /\ resp = NoResp
  /\ frontendUrl = ""
  /\ fed = NoFed
  /\ load = NoLoad
  /\ hits = [tier \in Tiers |-> [ip \in Clients |-> 0]]

\* ------------------------------------------------------------------ Init
InitAuth ==
  /\ now = 0
  /\ issued = {}
  /\ users = [u \in Users |-> [exists |-> TRUE, isActive |-> TRUE, lastLogin |-> 0]]
  /\ blacklist = {}
  /\ req = IdleReq

NoCall == [op |-> "none", token |-> NoToken, up |-> TRUE, res |-> FALSE]

InitSession == sess = [prev |-> NoCall, last |-> NoCall]

Init == InitAuth /\ InitSession /\ InitCors

\* --------------------------------------------------------- environment
Tick ==
  /\ now < MaxTime
  /\ now' = now + 1
  /\ UNCHANGED <<issued, users, blacklist, req, sess, corsVars>>

\* login: the user is found by email and a token is signed
login(u) ==
  /\ users[u].exists
  /\ Cardinality(issued \cup {generateToken(u, now)}) <= MaxIssued
  /\ issued' = issued \cup {generateToken(u, now)}
  /\ UNCHANGED <<now, users, blacklist, req, sess, corsVars>>

\* PUT /api/users/:userId with isActive in the body, for a user who holds a token
updateUser(u, isActive) ==
  /\ \E t \in issued : t.id = u
  /\ users[u].exists /\ users[u].isActive # isActive
  /\ users' = [users EXCEPT ![u].isActive = isActive]
  /\ UNCHANGED <<now, issued, blacklist, req, sess, corsVars>>

\* DELETE /api/users/:userId
deleteUser(u) ==
  /\ \E t \in issued : t.id = u
  /\ users[u].exists
  /\ users' = [users EXCEPT ![u] = [exists |-> FALSE, isActive |-> FALSE, lastLogin |-> 0]]
  /\ UNCHANGED <<now, issued, blacklist, req, sess, corsVars>>

\* the TTL monitor removes a record whose expiresAt has passed
TtlReap ==
  /\ \E r \in blacklist : ttlExpired(r, now)
  /\ blacklist' = {r \in blacklist : ~ttlExpired(r, now)}
  /\ UNCHANGED <<now, issued, users, req, sess, corsVars>>

\* up: whether the collection answers this deleteMany
cleanupExpiredTokens ==
  /\ \E up \in BOOLEAN : blacklist' = cleanupExpired(blacklist, up, now)
  /\ UNCHANGED <<now, issued, users, req, sess, corsVars>>

\* ------------------------------------------------ a request, step by step
HeaderValues == issued \cup {NoToken, BadToken}
CookieValues == issued \cup {NoToken}

\* token extraction and the synchronous verifyToken, up to the first await
Arrive(kind, hdr, ck) ==
  /\ req.pc \in {"idle", "done"}
  /\ LET tok == IF kind = "optionalAuth" THEN optionalAuthToken(hdr, ck)
                ELSE protectToken(hdr, ck)
         r0 == [IdleReq EXCEPT !.kind = kind, !.hdr = hdr, !.ck = ck, !.token = tok]
     IN req' = IF tok = NoToken
               THEN (IF kind = "optionalAuth" THEN nextPlain(r0)
                     ELSE nextWithError(r0, "Not authorized to access this route"))
               ELSE IF ~verifyToken(tok, now) THEN reject(r0, protectCatch("jwt"))
               ELSE [r0 EXCEPT !.pc = "blacklist"]
  /\ UNCHANGED <<now, issued, users, blacklist, sess, corsVars>>

protect == \E h \in HeaderValues, c \in CookieValues : Arrive("protect", h, c)

optionalAuth == \E h \in HeaderValues, c \in CookieValues : Arrive("optionalAuth", h, c)

\* POST /logout: protect, then the logout handler
logoutRoute == \E h \in HeaderValues, c \in CookieValues : Arrive("logout", h, c)

\* await SessionService.isTokenBlacklisted(token) resolves
\* up: whether the collection answers this findOne
BlacklistLookup ==
  /\ req.pc = "blacklist"
  /\ \E up \in BOOLEAN :
       LET msg == verifyTokenWithBlacklist(blacklist, up, req.token)
           \* missed: the token was on the list and the failed query hid it
           r1 == [req EXCEPT !.missed = (~up /\ \E b \in blacklist : b.token = req.token)]
       IN req' = IF msg # "" THEN reject(r1, protectCatch(msg))
                 ELSE [r1 EXCEPT !.pc = "user"]
  /\ UNCHANGED <<now, issued, users, blacklist, sess, corsVars>>

\* await User.findById(decoded.id) resolves; on success the next handler starts
UserLookup ==
  /\ req.pc = "user"
  /\ \E up \in BOOLEAN :
       LET doc == findById(users, req.token.id)
           r1 == IF ~up THEN reject(req, protectCatch("db"))
                 ELSE IF req.kind = "optionalAuth" THEN optionalAuthResolve(req, doc)
                 ELSE protectResolve(req, doc)
       IN req' = IF req.kind = "logout" /\ r1.nextErr = ""
                 THEN \* logout: blacklistToken runs verifyToken before its await
                      IF verifyToken(r1.reqToken, now)
                      THEN [r1 EXCEPT !.pc = "create"]
                      ELSE logoutFinish(r1, blacklistTokenThrows(TRUE))
                 ELSE IF req.kind = "logoutAll" /\ r1.nextErr = ""
                 THEN \* the logoutAll handler, up to its await
                      [r1 EXCEPT !.pc = "invalidate"]
                 ELSE IF req.kind = "admin" /\ r1.nextErr = ""
                 THEN \* router.use(authorize('admin')) is next
                      [r1 EXCEPT !.pc = "authorize"]
                 ELSE r1
  /\ UNCHANGED <<now, issued, users, blacklist, sess, corsVars>>

\* await TokenBlacklist.create(...) settles, then the rest of logout
BlacklistCreate ==
  /\ req.pc = "create"
  /\ \E up \in BOOLEAN :
       /\ blacklist' = createRecord(blacklist, up, req.reqToken, req.user.id)
       /\ LET failed == (blacklist' = blacklist)
          IN req' = logoutFinish(req, blacklistTokenThrows(failed))
  /\ UNCHANGED <<now, issued, users, sess, corsVars>>

NextAuth ==
  \/ Tick
  \/ \E u \in Users : login(u)
  \/ \E u \in Users, isActive \in BOOLEAN : updateUser(u, isActive)
  \/ \E u \in Users : deleteUser(u)
  \/ TtlReap
  \/ cleanupExpiredTokens
  \/ protect
  \/ optionalAuth
  \/ logoutRoute
  \/ BlacklistLookup
  \/ UserLookup
  \/ BlacklistCreate

SpecAuth == Init /\ [][NextAuth]_vars

\* ------------------------------------- SessionService called directly
called(op, t, up, res) ==
  [prev |-> sess.last, last |-> [op |-> op, token |-> t, up |-> up, res |-> res]]

CallTokens == issued \cup {BadToken}

CallBlacklistToken ==
  \E t \in CallTokens, u \in Users, up \in BOOLEAN :
    /\ blacklist' = blacklistToken(blacklist, up, t, u, now)
    /\ sess' = called("blacklistToken", t, up, FALSE)
    /\ UNCHANGED <<now, issued, users, req, corsVars>>

CallIsTokenBlacklisted ==
  \E t \in CallTokens, up \in BOOLEAN :
    /\ sess' = called("isTokenBlacklisted", t, up, isTokenBlacklisted(blacklist, up, t))
    /\ blacklist' = storeAfterFindOne(blacklist, up, t)
    /\ UNCHANGED <<now, issued, users, req, corsVars>>

CallCleanupExpiredTokens ==
  \E up \in BOOLEAN :
    /\ blacklist' = cleanupExpired(blacklist, up, now)
    /\ sess' = called("cleanupExpiredTokens", NoToken, up, FALSE)
    /\ UNCHANGED <<now, issued, users, req, corsVars>>

SessionTtlReap ==
  /\ \E r \in blacklist : ttlExpired(r, now)
  /\ blacklist' = {r \in blacklist : ~ttlExpired(r, now)}
  /\ sess' = called("ttl", NoToken, TRUE, FALSE)
  /\ UNCHANGED <<now, issued, users, req, corsVars>>

NextSession ==
  \/ Tick
  \/ \E u \in Users : login(u)
  \/ CallBlacklistToken
  \/ CallIsTokenBlacklisted
  \/ CallCleanupExpiredTokens
  \/ SessionTtlReap

SpecSession == Init /\ [][NextSession]_vars

\* ------------------------------------------------------- the CORS chain
MaxRaised == 2
MaxAdded == 2
MaxServed == 2

RequestOrigins ==
  {"", "https://sec-x.netlify.app", "https://evil.test",
   "https://new.example.com", "not-a-url"}

Referers == {"", "http://192.168.1.5", "not-a-url"}

Methods == {"GET", "OPTIONS"}

Paths == {"/api/health", "/api/blogs"}

AddableUrls == {"https://new.example.com"}

AddableEnvironments == {"production"}

UpdateBodies == {[isActive |-> FALSE], [isActive |-> TRUE]}

\* lastUsed of an entry recordOriginUsage has not touched
NeverUsed == -1

\* one request through cors, validateOriginRequest, blockSuspiciousOrigins,
\* the route handler and the error handlers of index.ts
Request(origin, method, referer, isWarming, path, ip) ==
  /\ Len(alerts) < MaxRaised
  /\ LET tier == smartCORSLimiter(method, validationAtLimiter)
         totalHits == hits[tier][ip] + 1
         stage == corsMiddleware(origin, method)
         validation == validateOriginRequest(origin, referer, isWarming, path)
         types == IF stage = "next" THEN alertTypes(validation) ELSE <<>>
         blocked == stage = "next" /\ blockSuspiciousOrigins(validation)
         sys == generateAlerts([alerts |-> alerts, counts |-> violationCounts],
                               types, origin, ip)
         base == [NoResp EXCEPT !.origin = origin, !.method = method,
                    !.registered = (origin \in getActiveOrigins(origins)),
                    !.raised = SubSeq(sys.alerts, 1, Len(types)),
                    !.warnings = IF stage = "next" /\ validation.attached
                                 THEN validation.warnings ELSE 0,
                    !.tier = tier, !.hit = totalHits,
                    !.validated = (stage = "next"), !.warming = isWarming,
                    !.collected = IF stage = "next" THEN validation.warnings ELSE 0]
         chain ==
             IF stage = "CORSError"
             THEN [base EXCEPT !.status = corsErrorHandler(stage).status,
                               !.error = corsErrorHandler(stage).error]
             ELSE IF stage = "preflight"
             THEN [base EXCEPT !.status = 200, !.acao = allowOriginHeader(origin)]
             ELSE IF blocked
             THEN [base EXCEPT !.status = 403, !.error = "SUSPICIOUS_ORIGIN",
                               !.acao = allowOriginHeader(origin)]
             ELSE [base EXCEPT !.status = 200, !.handlerRan = TRUE,
                               !.acao = allowOriginHeader(origin)]
     IN /\ hits' = [hits EXCEPT ![tier][ip] = totalHits]
        /\ alerts' = sys.alerts
        /\ violationCounts' = sys.counts
        /\ resp' =
             IF overLimit(totalHits, tier) /\ ~answersInTick(stage, blocked, path)
             THEN [chain EXCEPT !.status = 429, !.retryAfter = retryAfterOf(tier)]
             ELSE chain
  /\ UNCHANGED <<authVars, origins, originsFile, nextId, frontendUrl, fed, load>>

\* the most hits any one counter has taken
Served(n) == \E tier \in Tiers, ip \in Clients : hits[tier][ip] >= n

request ==
  /\ ~Served(MaxServed)
  /\ \E origin \in RequestOrigins, method \in Methods, referer \in Referers,
     isWarming \in BOOLEAN, path \in Paths, ip \in Clients :
    Request(origin, method, referer, isWarming, path, ip)

cleanupOldCounts ==
  /\ violationCounts # <<>>
  /\ violationCounts' = <<>>
  /\ UNCHANGED <<authVars, origins, originsFile, nextId, alerts, resp, gateVars>>

\* POST /api/admin/origins with a url that new URL() accepts
\* OriginManagementService.addOrigin: push and save
serviceAddOrigin(url, environment) ==
  /\ origins' = Append(origins, [id |-> nextId, url |-> url, environment |-> environment,
                                 isActive |-> TRUE, usageCount |-> 0, lastUsed |-> NeverUsed])
  /\ nextId' = nextId + 1
  /\ \E written \in BOOLEAN : originsFile' = saveOrigins(originsFile, origins', written)

\* origins.find / findIndex by id
hasOrigin(originId) == \E i \in DOMAIN origins : origins[i].id = originId

\* OriginManagementService.updateOrigin on an id that is found
serviceUpdateOrigin(originId, updates) ==
  /\ \E i \in DOMAIN origins :
       /\ origins[i].id = originId
       /\ \A j \in DOMAIN origins : origins[j].id = originId => i <= j
       /\ origins' = [origins EXCEPT ![i] = assign(@, updates)]
  /\ \E written \in BOOLEAN : originsFile' = saveOrigins(originsFile, origins', written)

\* OriginManagementService.removeOrigin on an id that is found
serviceRemoveOrigin(originId) ==
  /\ \E i \in DOMAIN origins :
       /\ origins[i].id = originId
       /\ \A j \in DOMAIN origins : origins[j].id = originId => i <= j
       /\ origins' = SubSeq(origins, 1, i - 1) \o SubSeq(origins, i + 1, Len(origins))
  /\ \E written \in BOOLEAN : originsFile' = saveOrigins(originsFile, origins', written)

\* the body checks of POST /origins: url and environment present, new URL(url)
addOriginAccepts(url, environment) ==
  url # "" /\ environment # "" /\ parseUrl(url).ok

\* POST /origins: 400 without url or environment, 400 when new URL(url) throws
addOrigin(url, environment) ==
  /\ nextId <= MaxAdded
  /\ addOriginAccepts(url, environment)
  /\ serviceAddOrigin(url, environment)
  /\ UNCHANGED <<authVars, alerts, violationCounts, resp, gateVars>>

updateOrigin(originId, updates) ==
  /\ serviceUpdateOrigin(originId, updates)
  /\ UNCHANGED <<authVars, nextId, alerts, violationCounts, resp, gateVars>>

removeOrigin(originId) ==
  /\ serviceRemoveOrigin(originId)
  /\ UNCHANGED <<authVars, nextId, alerts, violationCounts, resp, gateVars>>

\* loadOrigins at startup: the file is read, or the list is emptied and saved
loadOrigins ==
  /\ \E readable \in BOOLEAN, written \in BOOLEAN :
       /\ origins' = IF readable THEN originsFile ELSE <<>>
       /\ originsFile' = IF readable THEN originsFile
                         ELSE saveOrigins(originsFile, <<>>, written)
  /\ origins' # origins \/ originsFile' # originsFile
  /\ UNCHANGED <<authVars, nextId, alerts, violationCounts, resp, gateVars>>

NextCors ==
  \/ request
  \/ cleanupOldCounts
  \/ \E url \in AddableUrls, environment \in AddableEnvironments : addOrigin(url, environment)
  \/ \E originId \in 1..MaxAdded, updates \in UpdateBodies : updateOrigin(originId, updates)
  \/ \E originId \in 1..MaxAdded : removeOrigin(originId)
  \/ loadOrigins

SpecCors == Init /\ [][NextCors]_vars

\* ----------------------------------- the chain under a configured FRONTEND_URL
FrontendUrls == {"", "http://192.168.1.5", "not-a-url"}

SuspectOrigins == {"", "http://192.168.1.5", "https://sec-x.netlify.app", "not-a-url"}

SuspectReferers == {"", "https://sec-x.netlify.app", "not-a-url"}

\* the process starts with FRONTEND_URL set or unset; module state is fresh
startServer(url) ==
  /\ url # frontendUrl
  /\ frontendUrl' = url
  /\ origins' = <<>>
  /\ alerts' = <<>>
  /\ violationCounts' = <<>>
  /\ hits' = [tier \in Tiers |-> [ip \in Clients |-> 0]]
  /\ resp' = NoResp
  /\ UNCHANGED <<authVars, originsFile, nextId, fed, load>>

originRequest ==
  /\ ~Served(MaxServed)
  /\ \E origin \in SuspectOrigins, method \in Methods, referer \in SuspectReferers,
        isWarming \in BOOLEAN, path \in Paths, ip \in Clients :
       Request(origin, method, referer, isWarming, path, ip)

NextOrigin ==
  \/ \E url \in FrontendUrls : startServer(url)
  \/ originRequest
  \/ cleanupOldCounts

SpecOrigin == Init /\ [][NextOrigin]_vars

\* ------------------------------------------------- one client against the limiters
MaxOver == 2

LimiterOrigins == {"", "https://evil.test"}

limitedRequest ==
  \E origin \in LimiterOrigins, method \in Methods, path \in Paths, ip \in Clients :
    /\ hits[smartCORSLimiter(method, validationAtLimiter)][ip]
         < maxOf(smartCORSLimiter(method, validationAtLimiter)) + MaxOver
    /\ Request(origin, method, "", FALSE, path, ip)

\* the memory store of one limiter forgets its counts when its window ends
windowReset(tier) ==
  /\ \E ip \in Clients : hits[tier][ip] > 0
  /\ hits' = [hits EXCEPT ![tier] = [ip \in Clients |-> 0]]
  /\ UNCHANGED <<authVars, origins, originsFile, nextId, alerts, violationCounts,
                 resp, frontendUrl, fed, load>>

NextLimiter ==
  \/ limitedRequest
  \/ \E tier \in Tiers : windowReset(tier)

SpecLimiter == Init /\ [][NextLimiter]_vars

\* --------------------------------------------- the alert system called directly
MaxCalls == 3

\* how many alerts the buffer and one key's counter hold at the start
FillLevels == {0, 9, 19, 49, 999}

FillOrigin == "https://sec-x.netlify.app"

FillClient == CHOOSE ip \in Clients : TRUE

AlertOrigins == {"https://sec-x.netlify.app", "https://evil.test"}

AlertTypes == {"SUSPICIOUS", "BLOCKED"}

\* the alert system after n <= maxAlerts generateAlert calls for one origin and
\* client since the start: the i-th newest alert was raised at count n - i
filled(n) ==
  [alerts |-> [i \in 1..n |->
                 [type |-> "SUSPICIOUS", severity |-> severityOf(n - i),
                  origin |-> FillOrigin, ip |-> FillClient,
                  violationCount |-> n - i + 1]],
   counts |-> IF n = 0 THEN <<>>
              ELSE [k \in {alertKey(FillOrigin, FillClient)} |-> n]]

InitAlerts ==
  /\ InitAuth /\ InitSession
  /\ origins = <<>> /\ originsFile = <<>> /\ nextId = 1
  /\ resp = NoResp /\ frontendUrl = "" /\ load = NoLoad
  /\ hits = [tier \in Tiers |-> [ip \in Clients |-> 0]]
  /\ \E n \in FillLevels :
       /\ alerts = filled(n).alerts
       /\ violationCounts = filled(n).counts
       /\ fed = [NoFed EXCEPT !.since =
                   IF n = 0 THEN <<>> ELSE [k \in {<<FillOrigin, FillClient>>} |-> n]]

sinceOf(pair) == IF pair \in DOMAIN fed.since THEN fed.since[pair] ELSE 0

callGenerateAlert(type, origin, ip) ==
  /\ fed.calls < MaxCalls
  /\ LET sys == generateAlert([alerts |-> alerts, counts |-> violationCounts],
                              type, origin, ip)
     IN /\ alerts' = sys.alerts
        /\ violationCounts' = sys.counts
  /\ fed' = [calls |-> fed.calls + 1,
             last |-> [type |-> type, origin |-> origin, ip |-> ip],
             since |-> [k \in DOMAIN fed.since \cup {<<origin, ip>>} |->
                          IF k = <<origin, ip>> THEN sinceOf(k) + 1 ELSE fed.since[k]]]
  /\ UNCHANGED <<authVars, origins, originsFile, nextId, resp, frontendUrl, hits, load>>

\* the hourly setInterval
callCleanupOldCounts ==
  /\ violationCounts # <<>>
  /\ violationCounts' = <<>>
  /\ fed' = [fed EXCEPT !.since = <<>>]
  /\ UNCHANGED <<authVars, origins, originsFile, nextId, alerts, resp, frontendUrl, hits, load>>

NextAlerts ==
  \/ \E type \in AlertTypes, origin \in AlertOrigins, ip \in Clients :
       callGenerateAlert(type, origin, ip)
  \/ callCleanupOldCounts

SpecAlerts == InitAlerts /\ [][NextAlerts]_vars

\* ------------------------------------------ the registry operations alone
MaxUsage == 1

RegistryUrls == {"", "not-a-url", "https://new.example.com", "http://192.168.1.5"}

Environments == {"", "development", "production"}

RegistryUpdates ==
  {[url |-> "not-a-url"], [environment |-> "production"], [usageCount |-> 1]}

\* recordOriginUsage: the first entry with this url counts one more use
recordOriginUsage(originUrl) ==
  /\ \E i \in DOMAIN origins :
       /\ origins[i].url = originUrl
       /\ \A j \in DOMAIN origins : origins[j].url = originUrl => i <= j
       /\ origins[i].usageCount < MaxUsage
       /\ origins' = [origins EXCEPT ![i].usageCount = @ + 1, ![i].lastUsed = now]
  /\ \E written \in BOOLEAN : originsFile' = saveOrigins(originsFile, origins', written)
  /\ UNCHANGED <<authVars, nextId, alerts, violationCounts, resp, gateVars>>

\* getAllOrigins() and getOriginStats() called one after the other, as the
\* controller does
callGetOriginStats ==
  /\ origins' = getOriginStats(getAllOrigins(origins)).origins
  /\ UNCHANGED <<authVars, originsFile, nextId, alerts, violationCounts, resp, gateVars>>

NextRegistry ==
  \/ callGetOriginStats
  \/ \E url \in RegistryUrls, environment \in Environments : addOrigin(url, environment)
  \/ \E originId \in 1..MaxAdded, updates \in RegistryUpdates : updateOrigin(originId, updates)
  \/ \E originId \in 1..MaxAdded : removeOrigin(originId)
  \/ \E originUrl \in RegistryUrls : recordOriginUsage(originUrl)
  \/ loadOrigins

SpecRegistry == Init /\ [][NextRegistry]_vars

\* ------------------------------------------------ the admin routers
\* /api/admin/origins and /api/cors-debug behind protect and authorize('admin')
TestOrigins == {"", "https://evil.test"}

AdminUrls == {"not-a-url", "https://new.example.com"}

InitAdmin ==
  /\ now = 0
  /\ issued = {generateToken(u, 0) : u \in Users}
  /\ users = [u \in Users |-> [exists |-> TRUE, isActive |-> TRUE, lastLogin |-> 0]]
  /\ blacklist = {}
  /\ req = IdleReq
  /\ InitSession /\ InitCors

adminRequest == \E h \in HeaderValues, c \in CookieValues : Arrive("admin", h, c)

AtAuthorize == req.kind = "admin" /\ req.pc = "authorize"

Authorized == AtAuthorize /\ authorize(req.user, {"admin"}).status = 0

adminRefused ==
  /\ AtAuthorize
  /\ authorize(req.user, {"admin"}).status # 0
  /\ req' = authorizeRefuse(req, authorize(req.user, {"admin"}))
  /\ UNCHANGED <<now, issued, users, blacklist, sess, corsVars>>

adminGetAllOrigins ==
  /\ Authorized
  /\ req' = answer(req, "getAllOrigins", 200)
  /\ origins' = getOriginStats(origins).origins
  /\ UNCHANGED <<now, issued, users, blacklist, sess, originsFile, nextId,
                 alerts, violationCounts, resp, gateVars>>

adminAddOrigin ==
  \E url \in AdminUrls, environment \in AddableEnvironments :
    /\ Authorized
    /\ nextId <= MaxAdded
    /\ IF addOriginAccepts(url, environment)
       THEN /\ serviceAddOrigin(url, environment)
            /\ req' = answer(req, "addOrigin", 201)
       ELSE /\ req' = answer(req, "addOrigin", 400)
            /\ UNCHANGED <<origins, originsFile, nextId>>
    /\ UNCHANGED <<now, issued, users, blacklist, sess,
                   alerts, violationCounts, resp, gateVars>>

adminUpdateOrigin ==
  \E originId \in 1..MaxAdded, updates \in UpdateBodies :
    /\ Authorized
    /\ IF hasOrigin(originId)
       THEN /\ serviceUpdateOrigin(originId, updates)
            /\ req' = answer(req, "updateOrigin", 200)
       ELSE /\ req' = answer(req, "updateOrigin", 404)
            /\ UNCHANGED <<origins, originsFile>>
    /\ UNCHANGED <<now, issued, users, blacklist, sess,
                   nextId, alerts, violationCounts, resp, gateVars>>

adminRemoveOrigin ==
  \E originId \in 1..MaxAdded :
    /\ Authorized
    /\ IF hasOrigin(originId)
       THEN /\ serviceRemoveOrigin(originId)
            /\ req' = answer(req, "removeOrigin", 200)
       ELSE /\ req' = answer(req, "removeOrigin", 404)
            /\ UNCHANGED <<origins, originsFile>>
    /\ UNCHANGED <<now, issued, users, blacklist, sess,
                   nextId, alerts, violationCounts, resp, gateVars>>

adminGetCORSAlerts ==
  /\ Authorized
  /\ req' = answer(req, "getCORSAlerts", 200)
  /\ UNCHANGED <<now, issued, users, blacklist, sess, corsVars>>

adminTestCORSOrigin ==
  \E testOrigin \in TestOrigins :
    /\ Authorized
    /\ req' = answer(req, "testCORSOrigin", IF testOrigin = "" THEN 400 ELSE 200)
    /\ UNCHANGED <<now, issued, users, blacklist, sess, corsVars>>

NextAdmin ==
  \/ Tick
  \/ \E u \in Users, isActive \in BOOLEAN : updateUser(u, isActive)
  \/ adminRequest
  \/ BlacklistLookup
  \/ UserLookup
  \/ adminRefused
  \/ adminGetAllOrigins
  \/ adminAddOrigin
  \/ adminUpdateOrigin
  \/ adminRemoveOrigin
  \/ adminGetCORSAlerts
  \/ adminTestCORSOrigin

SpecAdmin == InitAdmin /\ [][NextAdmin]_vars

\* ------------------------------------------------ POST /api/auth/logout-all
\* one user logged in on two devices
InitLogoutAll ==
  /\ now = 1
  /\ issued = {generateToken("u1", 0), generateToken("u1", 1)}
  /\ users = [u \in Users |-> [exists |-> TRUE, isActive |-> TRUE, lastLogin |-> 0]]
  /\ blacklist = {}
  /\ req = IdleReq
  /\ InitSession /\ InitCors

logoutAllRoute == \E h \in HeaderValues, c \in CookieValues : Arrive("logoutAll", h, c)

\* await SessionService.invalidateUserSessions(userId) settles, then
\* clearCookie and the 200 answer
\* up: whether the collection answers this findByIdAndUpdate
logoutAll ==
  /\ req.kind = "logoutAll" /\ req.pc = "invalidate"
  /\ \E up \in BOOLEAN :
       /\ users' = invalidateUserSessions(users, up, req.user.id, now)
       /\ sess' = called("invalidateUserSessions", req.reqToken, up, FALSE)
  /\ req' = logoutFinish(req, FALSE)
  /\ UNCHANGED <<now, issued, blacklist, corsVars>>

NextLogoutAll ==
  \/ Tick
  \/ logoutAllRoute
  \/ protect
  \/ BlacklistLookup
  \/ UserLookup
  \/ logoutAll

SpecLogoutAll == InitLogoutAll /\ [][NextLogoutAll]_vars

\* ------------------------------------------ loadOrigins at startup, step by step
\* the module has just been imported: loadOrigins has called fs.readFile
InitStartup ==
  /\ InitAuth /\ InitSession
  /\ origins = <<>> /\ originsFile = <<>> /\ nextId = 1
  /\ alerts = <<>> /\ violationCounts = <<>>
  /\ resp = NoResp /\ frontendUrl = "" /\ fed = NoFed
  /\ hits = [tier \in Tiers |-> [ip \in Clients |-> 0]]
  /\ load = [pc |-> "reading", ok |-> TRUE, data |-> <<>>]

\* fs.readFile takes the file as it is now, or fails
loadReadFile ==
  /\ load.pc = "reading"
  /\ \E readable \in BOOLEAN :
       load' = [pc |-> "read", ok |-> readable,
                data |-> IF readable THEN originsFile ELSE <<>>]
  /\ UNCHANGED <<authVars, origins, originsFile, nextId, alerts, violationCounts,
                 resp, frontendUrl, hits, fed>>

\* the continuation after await readFile: this.origins = JSON.parse(data), or
\* the catch branch: this.origins = [] and saveOrigins() is called
loadAssign ==
  /\ load.pc = "read"
  /\ origins' = IF load.ok THEN load.data ELSE <<>>
  /\ load' = [load EXCEPT !.pc = IF load.ok THEN "done" ELSE "saving"]
  /\ UNCHANGED <<authVars, originsFile, nextId, alerts, violationCounts,
                 resp, frontendUrl, hits, fed>>

\* saveOrigins of the catch branch: after mkdir, this.origins as it is then
\* is written
loadSave ==
  /\ load.pc = "saving"
  /\ \E written \in BOOLEAN : originsFile' = saveOrigins(originsFile, origins, written)
  /\ load' = [load EXCEPT !.pc = "done"]
  /\ UNCHANGED <<authVars, origins, nextId, alerts, violationCounts,
                 resp, frontendUrl, hits, fed>>

NextStartup ==
  \/ loadReadFile
  \/ loadAssign
  \/ loadSave
  \/ \E url \in AddableUrls, environment \in Environments \ {""} : addOrigin(url, environment)
  \/ \E originId \in 1..MaxAdded, updates \in UpdateBodies : updateOrigin(originId, updates)

SpecStartup == InitStartup /\ [][NextStartup]_vars

\* ================================================================ claims
RevokedTokens == {b.token : b \in blacklist}

ActiveUser(id) == id \in Users /\ users[id].exists /\ users[id].isActive

\* ---- C1
C1_Kept == \A b \in blacklist : now' < b.token.exp => b \in blacklist'

C1_Step ==
  (/\ req.pc = "blacklist" /\ req'.pc # "blacklist"
   /\ req.kind # "optionalAuth"
   /\ req.token \in RevokedTokens
   /\ ~req'.missed)
  => (/\ req'.pc = "done"
      /\ req'.nextErr = "Session has been terminated"
      /\ req'.status = 401
      /\ req'.user = NoUser)

RoundTrip ==
  /\ sess.prev.op = "blacklistToken"
  /\ sess.last.op = "isTokenBlacklisted"
  /\ sess.prev.token = sess.last.token
  /\ sess.last.token.sig = "ok"
  /\ now < sess.last.token.exp

C3_Step ==
  /\ req'.missed => req'.nextErr # "Session has been terminated"
  /\ (req.pc = "blacklist" /\ req'.missed) => req'.pc = "user"
  /\ (/\ req.pc = "user" /\ req'.pc # "user"
      /\ req.kind = "protect" /\ req.missed
      /\ ActiveUser(req.token.id)
      /\ req'.nextErr # "Not authorized, token failed")
     => (/\ req'.pc = "done" /\ req'.nextErr = ""
         /\ req'.user = [id |-> req.token.id, role |-> Role(req.token.id)])

\* C3: a blacklist lookup that fails reads as not revoked: the request goes on
\* to the user lookup and, with an active user, protect admits it although
\* the token is on the list.
C3_FailOpen == [][C3_Step]_vars

C3_Witness ==
  /\ req.kind = "protect" /\ req.pc = "done"
  /\ req.missed /\ req.token \in RevokedTokens
  /\ req.user # NoUser /\ req.nextErr = ""

\* ---- C4
LogoutRecord ==
  [token |-> req.reqToken, userId |-> req.user.id, expiresAt |-> req.reqToken.exp]

C4_Step ==
  /\ (req'.kind = "logout" /\ req'.pc = "done" /\ req'.user # NoUser)
     => (/\ req'.status = 200 /\ req'.cookieCleared
         /\ req'.nextErr = "" /\ req'.nextCalls = 1)
  /\ (req.kind = "logout" /\ req.pc \in {"user", "create"} /\ req'.pc = "done")
     => \/ blacklist' = blacklist
        \/ /\ req.reqToken \notin RevokedTokens
           /\ blacklist' = blacklist \cup {LogoutRecord}

\* C4: the logout handler, once protect has admitted the request, always ends
\* with the cookie cleared and the 200 answer and never with next(error),
\* and it leaves the store as it was unless it added this token's record.
C4_LogoutBestEffort == [][C4_Step]_vars

C4_Witness ==
  /\ req.kind = "logout" /\ req.pc = "done"
  /\ req.status = 200 /\ req.cookieCleared
  /\ req.reqToken \notin RevokedTokens
  /\ now < req.reqToken.exp

\* the duplicate-record case of C4: the token was on the list all along
C4_WitnessDuplicate ==
  /\ req.kind = "logout" /\ req.pc = "done"
  /\ req.status = 200 /\ req.cookieCleared
  /\ req.missed /\ req.reqToken \in RevokedTokens

\* ---- C5
OptionalAuthEnds ==
  req' # req /\ req'.kind = "optionalAuth" /\ req'.pc = "done"

\* C5 as stated: optionalAuth calls next once without error, and attaches an
\* identity only for a token that verifies, is not revoked and belongs to an
\* active user.
C5_OptionalAuthStrict ==
  [][OptionalAuthEnds =>
       /\ req'.nextCalls = 1 /\ req'.nextErr = ""
       /\ req'.user # NoUser =>
            /\ req'.token \in issued
            /\ req'.token \notin RevokedTokens
            /\ ActiveUser(req'.token.id)]_vars

\* C5, amended: as above, except that the token is one the blacklist lookup
\* did not report revoked: a lookup that failed counts as not revoked.
C5_OptionalAuthFailOpen ==
  [][OptionalAuthEnds =>
       /\ req'.nextCalls = 1 /\ req'.nextErr = "" /\ req'.status = 0
       /\ req'.user # NoUser =>
            /\ req'.token \in issued
            /\ (req'.token \in RevokedTokens => req'.missed)
            /\ ActiveUser(req'.token.id)
            /\ req'.user.id = req'.token.id]_vars

C5_Witness ==
  /\ req.kind = "optionalAuth" /\ req.pc = "done"
  /\ req.token \in RevokedTokens /\ ~req.missed
  /\ now < req.token.exp
  /\ req.user = NoUser /\ req.nextCalls = 1 /\ req.nextErr = ""

\* ---- C6
\* C6: with a token in the Authorization header and a different one in the
\* cookie, the middleware verifies the header token.
C6_HeaderPrecedence ==
  (req.kind # "none" /\ req.hdr # NoToken /\ req.ck # NoToken /\ req.hdr # req.ck)
  => req.token = req.hdr

\* ---- C7
C7_Step ==
  (/\ req.pc = "user" /\ req'.pc # "user"
   /\ req.kind # "optionalAuth"
   /\ ~ActiveUser(req.token.id))
  => (/\ req'.pc = "done" /\ req'.user = NoUser /\ req'.status = 401
      /\ req'.nextErr \in {"User not found", "User account is deactivated",
                           "Not authorized, token failed"})

\* C7: protect decides on the user document as it is when the lookup is
\* answered: for a user who is inactive or gone the request ends 401 with no
\* identity attached, whatever the token says.
C7_IdentityResolvedFresh == [][C7_Step]_vars

C7_Witness ==
  /\ req.kind = "protect" /\ req.pc = "done"
  /\ req.nextErr = "User account is deactivated"
  /\ req.token \in issued /\ now < req.token.exp
  /\ req.token \notin RevokedTokens
  /\ req.user = NoUser

\* ---- C8
\* C8: a request whose Origin is active in the managed-origin registry is
\* let through by the allow-list check and gets that origin back in
\* Access-Control-Allow-Origin.
C8_RegisteredOriginAllowed ==
  resp.registered => (resp.status = 200 /\ resp.acao = resp.origin)

\* ---- C9
Rejected(r) ==
  r.method # "none" /\ r.origin # "" /\ parseUrl(r.origin).ok
  /\ r.origin \notin allowedOrigins

\* C9: a request with a well-formed origin outside the allow-list is refused
\* and raises exactly one VIOLATION alert carrying that origin, of severity
\* LOW when it is the first for its key.
C9_ViolationAlert ==
  Rejected(resp) =>
    /\ resp.status = 403 /\ ~resp.handlerRan
    /\ Len(resp.raised) = 1
    /\ resp.raised[1].type = "VIOLATION"
    /\ resp.raised[1].origin = resp.origin
    /\ (countOf(violationCounts, alertKey(resp.origin, resp.raised[1].ip)) = 1
        => resp.raised[1].severity = "LOW")

\* ---- C10
NotAllowListed(r) == r.method # "none" /\ r.origin # "" /\ r.origin \notin allowedOrigins

C12_ThrottledOverBudget ==
  resp.method # "none" =>
    (resp.hit > maxOf(resp.tier) <=> (resp.status = 429 /\ resp.retryAfter > 0))

\* ---- C13
rank(severity) ==
  CASE severity = "LOW" -> 0
    [] severity = "MEDIUM" -> 1
    [] severity = "HIGH" -> 2
    [] OTHER -> 3

\* index of the newest alert of as from position i on that carries the origin
\* and client of a, 0 when there is none
RECURSIVE newestOf(_, _, _)
newestOf(as, a, i) ==
  IF i > Len(as) THEN 0
  ELSE IF as[i].origin = a.origin /\ as[i].ip = a.ip THEN i
  ELSE newestOf(as, a, i + 1)

Generated == fed'.calls = fed.calls + 1

C13_Step ==
  Generated =>
    LET new == alerts'[1]
        prev == newestOf(alerts, new, 1)
    IN (sinceOf(<<new.origin, new.ip>>) > 0 /\ prev > 0)
       => rank(new.severity) >= rank(alerts[prev].severity)

\* C13: with no cleanupOldCounts between them, an alert never has a lower
\* severity than the alert before it for the same origin and client.
C13_SeverityMonotone == [][C13_Step]_vars

C13_Witness ==
  /\ fed.calls > 0 /\ Len(alerts) >= 2
  /\ alerts[1].origin = alerts[2].origin /\ alerts[1].ip = alerts[2].ip
  /\ alerts[1].severity = "MEDIUM" /\ alerts[2].severity = "LOW"
  /\ alerts[1].violationCount = alerts[2].violationCount + 1

\* ---- C14
C14_Step ==
  Generated =>
    LET n == sinceOf(<<fed'.last.origin, fed'.last.ip>>)
    IN /\ n >= ThresholdCritical => alerts'[1].severity = "CRITICAL"
       /\ n = 0 => alerts'[1].severity = "LOW"

\* C14: an alert that has ThresholdCritical or more alerts of its origin and
\* client before it since the last cleanupOldCounts (the 51st and every later
\* one) is CRITICAL, and the first one after a cleanupOldCounts is LOW.
C14_CriticalUntilReset == [][C14_Step]_vars

C14_Witness ==
  /\ Len(alerts) >= 2
  /\ alerts[1].origin = alerts[2].origin /\ alerts[1].ip = alerts[2].ip
  /\ alerts[2].severity = "CRITICAL" /\ alerts[2].violationCount = ThresholdCritical + 1
  /\ alerts[1].severity = "LOW" /\ alerts[1].violationCount = 1

\* ---- C15
C15_Step ==
  /\ Len(alerts') <= maxAlerts
  /\ Generated =>
       /\ alerts'[1].type = fed'.last.type
       /\ alerts'[1].origin = fed'.last.origin
       /\ alerts'[1].ip = fed'.last.ip
       /\ getRecentAlerts(alerts', 1) = <<alerts'[1]>>
       /\ Tail(alerts') = IF Len(alerts) = maxAlerts
                          THEN SubSeq(alerts, 1, maxAlerts - 1)
                          ELSE alerts

\* C15: the buffer never holds more than maxAlerts alerts; generateAlert puts
\* the new alert first and keeps the others in order, dropping only the last
\* one when the buffer was full.
C15_BufferCapped == [][C15_Step]_vars

C15_Witness ==
  /\ fed.calls = 2
  /\ Len(alerts) = maxAlerts
  /\ alerts[maxAlerts].violationCount = 2

\* ---- C16
TwoLookups ==
  /\ sess.prev.op = "isTokenBlacklisted"
  /\ sess.last.op = "isTokenBlacklisted"
  /\ sess.prev.token = sess.last.token

LookupKeepsStore ==
  (sess'.last.op = "isTokenBlacklisted" /\ sess'.prev = sess.last) => blacklist' = blacklist

C17_UniqueUrls ==
  \A i, j \in DOMAIN origins : origins[i].url = origins[j].url => i = j

\* ---- C18
\* C18: every entry's url parses as an absolute URL, and an entry of the
\* production environment has an https url.
C18_ValidUrls ==
  \A i \in DOMAIN origins :
    /\ parseUrl(origins[i].url).ok
    /\ origins[i].environment = "production" => parseUrl(origins[i].url).protocol = "https:"

\* ---- C19
RegistryAndAlerts == <<origins, originsFile, nextId, alerts, violationCounts>>

AdminRequestEnds == req' # req /\ req'.kind = "admin" /\ req'.pc = "done"

C19_Step ==
  /\ req'.handler # "none" => (req'.user # NoUser /\ req'.user.role = "admin")
  /\ RegistryAndAlerts' # RegistryAndAlerts =>
       (req'.handler # "none" /\ req'.user.role = "admin")
  /\ (AdminRequestEnds /\ req'.user = NoUser) =>
       (req'.status = 401 /\ req'.handler = "none"
        /\ RegistryAndAlerts' = RegistryAndAlerts)
  /\ (AdminRequestEnds /\ req'.user # NoUser /\ req'.user.role # "admin") =>
       (req'.status = 403 /\ req'.handler = "none"
        /\ RegistryAndAlerts' = RegistryAndAlerts)

C19_WitnessForbidden ==
  /\ req.kind = "admin" /\ req.pc = "done"
  /\ req.user # NoUser /\ req.user.role = "reader"
  /\ req.status = 403 /\ req.handler = "none"

\* ---- C20
\* C20: once invalidateUserSessions has run for a user, protect rejects every
\* request that carries a token issued to that user before.
C20_AllSessionsInvalidated ==
  (/\ sess.last.op = "invalidateUserSessions"
   /\ req.kind = "protect" /\ req.pc = "done"
   /\ req.token \in issued
   /\ req.token.id = sess.last.token.id)
  => req.nextErr # ""

\* ---- C21
ProtectKinds == {"protect", "logout", "logoutAll", "admin"}

\* the revocation lookup of a request starts in this step
BlacklistQueried == req'.pc = "blacklist" /\ req.pc # "blacklist"

\* the user lookup of a request starts in this step
UserQueried == req'.pc = "user" /\ req.pc # "user"

C21_Order ==
  /\ BlacklistQueried => (req.pc \in {"idle", "done"} /\ verifyToken(req'.token, now))
  /\ UserQueried => req.pc = "blacklist"

\* C21 as stated: protect verifies the token, then asks the blacklist, then
\* asks for the user; the blacklist is not asked about a token that fails
\* verification, nor the user collection about a token on the blacklist.
C21_LookupOrder ==
  [][req'.kind \in ProtectKinds =>
       (C21_Order /\ (UserQueried => req'.token \notin RevokedTokens))]_vars

\* C21, amended: the same order; the user collection is not asked about a
\* token that the blacklist lookup reported as revoked (a lookup the
\* collection fails to answer reports nothing).
C21_LookupOrderAnswered ==
  [][req'.kind \in ProtectKinds =>
       (C21_Order /\ (UserQueried => (req'.token \notin RevokedTokens \/ req'.missed)))]_vars

C21_Witness ==
  /\ req.kind = "protect" /\ req.pc = "done"
  /\ req.token \in RevokedTokens /\ ~req.missed
  /\ req.nextErr = "Session has been terminated"

\* ---- C22
\* a limiter counter goes up in this step
BudgetConsumed == \E tier \in Tiers, ip \in Clients : hits'[tier][ip] > hits[tier][ip]

OriginRejected(r) ==
  r.status = 403 /\ r.error \in {"CORS_VIOLATION", "CORS_POLICY_VIOLATION", "SUSPICIOUS_ORIGIN"}

\* C22: the limiter comes after the allow-list check and the suspicion check,
\* so the request that is rejected for its origin is counted by no limiter.
C22_RejectedUsesNoBudget == [][OriginRejected(resp') => ~BudgetConsumed]_vars

\* ---- C23
\* C23: the limiter that counts a request is the options limiter for OPTIONS,
\* else the suspicious limiter when the origin validation of that request
\* gave a warning, else the general limiter.
C23_TierByClassification ==
  resp.method # "none" =>
    resp.tier = IF resp.method = "OPTIONS" THEN "options"
                ELSE IF resp.warnings > 0 THEN "suspicious"
                ELSE "general"

\* ---- C24
\* the severity the thresholds LOW < 5, MEDIUM < 10, HIGH < 20, CRITICAL >= 50
\* give to a count n, where they give one
SeverityAsStated(severity, n) ==
  /\ n < ThresholdLow => severity = "LOW"
  /\ (ThresholdLow <= n /\ n < ThresholdMedium) => severity = "MEDIUM"
  /\ (ThresholdMedium <= n /\ n < ThresholdHigh) => severity = "HIGH"
  /\ n >= ThresholdCritical => severity = "CRITICAL"

\* C24: every alert has the severity that these thresholds give to the count
\* of its key, taken before or after the alert itself is counted.
C24_SeverityThresholds ==
  \A i \in DOMAIN alerts :
    \/ SeverityAsStated(alerts[i].severity, alerts[i].violationCount)
    \/ SeverityAsStated(alerts[i].severity, alerts[i].violationCount - 1)

\* ---- C25
\* an add, update or remove request is answered with success in this step
MutationSucceeds ==
  /\ req.pc = "authorize" /\ req'.pc = "done"
  /\ req'.handler \in {"addOrigin", "updateOrigin", "removeOrigin"}
  /\ req'.status \in {200, 201}

\* C25: when a mutation is answered with success the file holds the new
\* registry, and the registry in memory never differs from the file.
C25_PersistedBeforeSuccess ==
  [][(MutationSucceeds => originsFile' = origins') /\ origins' = originsFile']_vars

\* ---- C26
Suspicious(raised) == {i \in DOMAIN raised : raised[i].type = "SUSPICIOUS"}

\* C26: a request with an Origin header that reaches validateOriginRequest
\* raises exactly one SUSPICIOUS alert when the validation collected a
\* warning, the 'Invalid origin URL format' warning included, and none when
\* it collected no warning.
C26_OneAlertPerWarningSet ==
  (resp.validated /\ resp.origin # "") =>
    Cardinality(Suspicious(resp.raised)) = IF resp.collected > 0 THEN 1 ELSE 0

\* ---- C27
\* C27: a request with X-Warming-Request: true is not checked against the
\* allow-list, collects no warning, raises no alert and is counted by no
\* limiter.
C27_WarmingBypass ==
  resp.warming =>
    /\ ~OriginRejected(resp)
    /\ resp.collected = 0 /\ resp.raised = <<>>
    /\ resp.tier = "none" /\ resp.status # 429

\* ---- C28
\* C28: a request that its limiter decides to throttle is answered 429 and
\* nothing else of the chain runs for it: neither origin validation nor a
\* route handler.
C28_ThrottledStops ==
  (resp.method # "none" /\ overLimit(resp.hit, resp.tier)) =>
    (resp.status = 429 /\ ~resp.validated /\ ~resp.handlerRan)

\* ---- C29
idsOf(os) == {os[i].id : i \in DOMAIN os}

\* C29: once the startup loadOrigins has finished, the registry in memory
\* holds every origin that was added, before or after the load finished.
C29_MutationSurvivesLoad ==
  load.pc = "done" => \A id \in 1..(nextId - 1) : id \in idsOf(origins)

\* ---- C30
\* C30: getAllOrigins, getActiveOrigins and getOriginStats leave the entries
\* of the registry and their order as they were.
C30_ReadsKeepRegistry ==
  /\ getAllOrigins(origins) = origins
  /\ getOriginStats(origins).origins = origins

====
